---- MODULE Spec2Model ----
(***************************************************************************)
(* Local-search engine of search/local.py and its containers of            *)
(* search/utils.py: the bounded priority queue (fringe), the inverse       *)
(* transform sampler, the generic driver _local_search and the expanders.  *)
(*                                                                         *)
(* Sequences are 1-based here and 0-based in the source: heap position p   *)
(* of the source is position p+1 here (parent p \div 2, children 2p, 2p+1).*)
(***************************************************************************)
EXTENDS Integers, Sequences, FiniteSets, TLC

VARIABLES
    queue,            \* BoundedPriorityQueue.queue: the heap array
    limit,            \* BoundedPriorityQueue.limit (0 also stands for None)
    fault,            \* the exception that ended the call, or "none"
    appended,         \* history: the candidates appended to the fringe so far
    problem,          \* which problem the nodes come from
    pc,               \* position inside _local_search / the entry point
    entry,            \* the entry point that was called
    iterations_limit, \* parameter iterations_limit
    fringe_size,      \* parameter fringe_size of _local_search
    initial_state,    \* problem.initial_state
    iteration,        \* local iteration of _local_search
    old_best,         \* local old_best of _local_search
    best,             \* local best of _local_search
    finish_reason,    \* local finish_reason of _local_search
    anneal,           \* history: temperature, successor, delta and outcome of the last annealing step
    before,           \* history: the fringe when the last expander call began
    restarts_limit,   \* parameter restarts_limit
    restarts,         \* local restarts of hill_climbing_random_restarts
    rbest,            \* local best of hill_climbing_random_restarts
    results,          \* history: what each run of the restart loop returned
    weights,          \* the weights a sampler was built from
    objects,          \* InverseTransformSampler.objects
    probs,            \* InverseTransformSampler.probs
    called,           \* history: the last container method called
    returned,         \* history: what the last sampler method returned
    given             \* history: the number of objects given to __init__, the last draw of sample

qvars == <<queue, limit>>
dvars == <<pc, entry, iterations_limit, fringe_size, initial_state, iteration,
           old_best, best, finish_reason, anneal, before>>
rvars == <<restarts_limit, restarts, rbest, results>>
svars == <<weights, objects, probs, returned, given>>
vars == <<queue, limit, fault, appended, called, problem, pc, entry, iterations_limit,
          fringe_size, initial_state, iteration, old_best, best, finish_reason,
          anneal, before, restarts_limit, restarts, rbest, results, weights,
          objects, probs, returned, given>>

(***************************************************************************)
(* Bounds of the model.                                                    *)
(***************************************************************************)
MaxState == 4
MaxLimit == 2
MaxAppends == 4
MaxOps == 4
MaxIter == 2
MaxRestarts == 3
MaxN == 3
MaxWeight == 2
DrawDen == 4

\* Python's None, where a node is expected
None == [state |-> -1, value |-> 0]

(***************************************************************************)
(* The problems.  "line" is the end-to-end problem of the specification:   *)
(* integers 0..100, quality -(x-42)^2, successors x-1 and x+1 clipped.     *)
(* "toy" is a small landscape with two local optima and a plateau;         *)
(* "deadend" is the same landscape with no action available in state 0.    *)
(***************************************************************************)
LineMax == 100
LineTarget == 42
ToyValues == <<1, 2, 0, 3, 3, -1, 0>>

StateMax(p) == IF p = "line" THEN LineMax ELSE MaxState
States(p) == 0..StateMax(p)

Value(p, s) ==
    IF p = "line" THEN 0 - ((s - LineTarget) * (s - LineTarget))
    ELSE ToyValues[(s % Len(ToyValues)) + 1]

Clip(p, s) == IF s < 0 THEN 0 ELSE IF s > StateMax(p) THEN StateMax(p) ELSE s

\* SearchNodeValueOrdered(state=s, problem=problem): the value is computed once
MkNode(p, s) == [state |-> s, value |-> Value(p, s)]

\* node.expand(local_search=True): one node per action, in the actions' order
Expand(p, node) ==
    IF p = "deadend" /\ node.state = 0 THEN <<>>
    ELSE << MkNode(p, Clip(p, node.state - 1)),
            MkNode(p, Clip(p, node.state + 1)) >>

\* SearchNodeValueOrdered.__lt__: the better node is the smaller one
NodeLT(a, b) == a.value > b.value

(***************************************************************************)
(* heapq, as BoundedPriorityQueue uses it.                                 *)
(***************************************************************************)
RECURSIVE SiftDownLoop(_, _, _, _)
SiftDownLoop(h, newitem, startpos, pos) ==
    IF pos > startpos /\ NodeLT(newitem, h[pos \div 2])
    THEN SiftDownLoop([h EXCEPT ![pos] = h[pos \div 2]], newitem, startpos, pos \div 2)
    ELSE [h EXCEPT ![pos] = newitem]

SiftDown(h, startpos, pos) == SiftDownLoop(h, h[pos], startpos, pos)

RECURSIVE SiftUpLoop(_, _, _, _)
SiftUpLoop(h, newitem, startpos, pos) ==
    LET childpos == 2 * pos
        rightpos == childpos + 1
        c == IF rightpos <= Len(h) /\ ~NodeLT(h[childpos], h[rightpos])
             THEN rightpos ELSE childpos
    IN IF childpos <= Len(h)
       THEN SiftUpLoop([h EXCEPT ![pos] = h[c]], newitem, startpos, c)
       ELSE SiftDown([h EXCEPT ![pos] = newitem], startpos, pos)

SiftUp(h, pos) == SiftUpLoop(h, h[pos], pos, pos)

\* mutant: the new item stays at the end of the list
HeapPushNoSift(h, x) == Append(h, x)

HeapPush(h, x) == SiftDown(Append(h, x), 1, Len(h) + 1)

RECURSIVE HeapifyFrom(_, _)
HeapifyFrom(h, i) == IF i < 1 THEN h ELSE HeapifyFrom(SiftUp(h, i), i - 1)

Heapify(h) == HeapifyFrom(h, Len(h) \div 2)

\* heappop of a non-empty heap: the new heap (the popped item is h[1])
HeapPopRest(h) ==
    LET lastelt == h[Len(h)]
        rest == SubSeq(h, 1, Len(h) - 1)
    IN IF rest = <<>> THEN rest ELSE SiftUp([rest EXCEPT ![1] = lastelt], 1)

\* heapq.nlargest(1, h)[0] = max(h): the first element no later one exceeds
RECURSIVE MaxFrom(_, _, _)
MaxFrom(h, i, result) ==
    IF i > Len(h) THEN result
    ELSE MaxFrom(h, i + 1, IF NodeLT(result, h[i]) THEN h[i] ELSE result)

NLargest1(h) == MaxFrom(h, 2, h[1])

\* list.remove(x): drops the first element equal to x
RECURSIVE IndexFrom(_, _, _)
IndexFrom(l, x, i) ==
    IF i > Len(l) THEN 0 ELSE IF l[i] = x THEN i ELSE IndexFrom(l, x, i + 1)

ListRemove(l, x) ==
    LET i == IndexFrom(l, x, 1)
    IN SubSeq(l, 1, i - 1) \o SubSeq(l, i + 1, Len(l))

(***************************************************************************)
(* BoundedPriorityQueue.                                                   *)
(***************************************************************************)
\* the overflow test of append: "self.limit and len(self.queue) > self.limit"
Overflow(h, lim) == lim # 0 /\ Len(h) > lim

\* mutant: evicts the head of the heap
EvictedHead(h) == h[1]

\* which element append evicts on overflow
Evicted(h) == NLargest1(h)

\* The element of a one-element set.  {F(v) : v \in {e}} has TLC compute e
\* once, as the source computes a local once, where LET would compute it at
\* every use.
Once(S) == CHOOSE r \in S : TRUE

\* lines 40-42 of append, on the list heappush left
Bounded(pushed, lim) ==
    IF Overflow(pushed, lim)
    THEN Once({Heapify(l) : l \in {ListRemove(pushed, Evicted(pushed))}})
    ELSE pushed

\* append(x), as a function of the heap array
AppendTo(h, lim, x) == Once({Bounded(pushed, lim) : pushed \in {HeapPush(h, x)}})

\* extend(iterable): append one by one
RECURSIVE ExtendTo(_, _, _)
ExtendTo(h, lim, xs) ==
    IF xs = <<>> THEN h
    ELSE Once({ExtendTo(h1, lim, Tail(xs)) : h1 \in {AppendTo(h, lim, Head(xs))}})

\* mutant: leaves the list as list.remove left it
RemoveNoHeapify(h, x) == ListRemove(h, x)

\* remove(x), x held
RemoveFrom(h, x) == Heapify(ListRemove(h, x))

Nodes(p) == {MkNode(p, s) : s \in States(p)}

\* sequences over S with lengths lo..hi
SeqsOf(S, lo, hi) == UNION {[1..n -> S] : n \in lo..hi}

(***************************************************************************)
(* Values of the variables a specification does not use.                   *)
(***************************************************************************)
NoAnneal == [T |-> "0", succ |-> None, delta |-> 0, outcome |-> "none"]

DriverIdle ==
    /\ pc = "idle" /\ entry = "none" /\ iterations_limit = 0 /\ fringe_size = 0
    /\ initial_state = 0 /\ iteration = 0 /\ old_best = None /\ best = None
    /\ finish_reason = "" /\ anneal = NoAnneal /\ before = <<>>

RestartsIdle ==
    /\ restarts_limit = 0 /\ restarts = 0 /\ rbest = None /\ results = <<>>

SamplerIdle ==
    /\ weights = <<>> /\ objects = <<>> /\ probs = <<>> /\ returned = None
    /\ given = [n |-> 0, draw |-> 0]

(***************************************************************************)
(* The queue on its own: any sequence of its operations.                   *)
(***************************************************************************)
\* BoundedPriorityQueue(limit): no check of the limit, an empty list
InitQueue ==
    /\ queue = <<>> /\ limit \in -1..MaxLimit
    /\ fault = "none" /\ appended = <<>> /\ problem = "toy" /\ called = "none"
    /\ DriverIdle /\ RestartsIdle /\ SamplerIdle

QAppend(x) ==
    /\ queue' = AppendTo(queue, limit, x)
    /\ fault' = "none"

QExtend(xs) ==
    /\ queue' = ExtendTo(queue, limit, xs)
    /\ fault' = "none"

\* pop(): heappop; an empty heap raises IndexError
QPop ==
    /\ IF queue = <<>>
       THEN fault' = "IndexError" /\ queue' = queue
       ELSE fault' = "none" /\ queue' = HeapPopRest(queue)

\* remove(x): list.remove raises ValueError when x is not held
QRemove(x) ==
    /\ IF IndexFrom(queue, x, 1) = 0
       THEN fault' = "ValueError" /\ queue' = queue
       ELSE fault' = "none" /\ queue' = RemoveFrom(queue, x)

QClear ==
    /\ queue' = <<>>
    /\ fault' = "none"

QFrame == UNCHANGED <<limit, problem, dvars, rvars, svars>>


\* only appends, with the history of what was appended
AppendStep ==
    /\ Len(appended) < MaxAppends
    /\ \E x \in Nodes(problem) : QAppend(x) /\ appended' = Append(appended, x)
    /\ called' = "append" /\ QFrame

NextAppend == AppendStep

SpecAppend == InitQueue /\ [][NextAppend]_vars

AnyAppend ==
    /\ Len(queue) < MaxOps
    /\ \E x \in Nodes(problem) : QAppend(x)
    /\ called' = "append" /\ UNCHANGED appended /\ QFrame

AnyExtend ==
    /\ Len(queue) + 2 <= MaxOps
    /\ \E xs \in SeqsOf(Nodes(problem), 2, 2) : QExtend(xs)
    /\ called' = "extend" /\ UNCHANGED appended /\ QFrame

AnyPop == QPop /\ called' = "pop" /\ UNCHANGED appended /\ QFrame

AnyRemove ==
    /\ \E x \in Nodes(problem) : QRemove(x)
    /\ called' = "remove" /\ UNCHANGED appended /\ QFrame

AnyClear == QClear /\ called' = "clear" /\ UNCHANGED appended /\ QFrame

NextQueue == AnyAppend \/ AnyExtend \/ AnyPop \/ AnyRemove \/ AnyClear

SpecQueue == InitQueue /\ [][NextQueue]_vars

(***************************************************************************)
(* The entry points of local.py and what each passes to _local_search.     *)
(* "local_search" is _local_search called with its defaults, the first     *)
(* expander and a fringe_size of the caller's choice.                      *)
(***************************************************************************)
Entries == {"beam", "beam_best_first", "hill_climbing", "hill_climbing_stochastic",
            "hill_climbing_random_restarts", "simulated_annealing", "genetic",
            "local_search"}

\* entry points whose caller chooses the fringe size (beam_size, population_size)
Sized == {"beam", "beam_best_first", "genetic", "local_search"}

ExpanderOf(e) ==
    CASE e = "beam" -> "all"
      [] e = "hill_climbing_stochastic" -> "random_best"
      [] e = "simulated_annealing" -> "annealing"
      [] e = "genetic" -> "genetic"
      [] OTHER -> "first"

RandomInitial(e) ==
    e \in {"beam", "beam_best_first", "hill_climbing_random_restarts", "genetic"}

\* mutant: the flag is set when there is a cap, not when there is none
StopWhenNoBetterCapped(e, il) ==
    IF e \in {"hill_climbing", "hill_climbing_random_restarts", "local_search"}
    THEN TRUE ELSE il # 0

StopWhenNoBetter(e, il) ==
    IF e \in {"hill_climbing", "hill_climbing_random_restarts", "local_search"}
    THEN TRUE ELSE il = 0

FinishLimit == "reaching iteration limit"
FinishNoBetter == "not being able to improve solution"

(***************************************************************************)
(* _local_search.                                                          *)
(***************************************************************************)
NodesOf(p, ss) == [i \in 1..Len(ss) |-> MkNode(p, ss[i])]

\* lines 336-348: the fringe is created and seeded
Start ==
    /\ pc = "start"
    /\ limit' = fringe_size
    /\ IF RandomInitial(entry)
       THEN \E ss \in SeqsOf(States(problem), IF fringe_size > 0 THEN fringe_size ELSE 0,
                                              IF fringe_size > 0 THEN fringe_size ELSE 0) :
               /\ queue' = ExtendTo(<<>>, fringe_size, NodesOf(problem, ss))
               /\ appended' = NodesOf(problem, ss)
       ELSE /\ queue' = AppendTo(<<>>, fringe_size, MkNode(problem, initial_state))
            /\ appended' = <<MkNode(problem, initial_state)>>
    /\ finish_reason' = "" /\ iteration' = 0 /\ best' = None /\ old_best' = None
    /\ before' = <<>>
    /\ pc' = "loop"
    /\ UNCHANGED <<fault, called, problem, entry, iterations_limit,
                   fringe_size, initial_state, anneal, rvars, svars>>

\* line 354 on an empty fringe: fringe[0] raises IndexError
LoopEmpty ==
    /\ pc = "loop" /\ queue = <<>>
    /\ fault' = "IndexError" /\ pc' = "fault"
    /\ UNCHANGED <<queue, limit, appended, called, problem, entry, iterations_limit,
                   fringe_size, initial_state, iteration, old_best, best,
                   finish_reason, anneal, before, rvars, svars>>

\* lines 354-363 around an expander that appended the candidates app and
\* left the fringe q
Expanded(q, app) ==
    /\ old_best' = queue[1]
    /\ before' = queue
    /\ appended' = appended \o app
    /\ queue' = q
    /\ iteration' = iteration + 1
    /\ IF q = <<>>
       THEN best' = best /\ fault' = "IndexError" /\ pc' = "fault"
       ELSE best' = q[1] /\ fault' = fault /\ pc' = "check"

LoopFrame ==
    UNCHANGED <<limit, called, problem, entry, iterations_limit,
                fringe_size, initial_state, finish_reason, rvars, svars>>

RECURSIVE Flatten(_)
Flatten(ls) == IF ls = <<>> THEN <<>> ELSE Head(ls) \o Flatten(Tail(ls))

\* mutant: each node's neighbours are inserted before the next node is read
RECURSIVE AllExpandedLiveFrom(_, _, _, _)
AllExpandedLiveFrom(p, q, lim, i) ==
    IF i > Len(q) THEN q
    ELSE AllExpandedLiveFrom(p, ExtendTo(q, lim, Expand(p, q[i])), lim, i + 1)

AllExpandedLive(p, q, lim) == AllExpandedLiveFrom(p, q, lim, 1)

\* _all_expander: the neighbours of every node held, then all of them inserted
AllExpanded(p, q, lim) ==
    ExtendTo(q, lim, Flatten([i \in 1..Len(q) |-> Expand(p, q[i])]))

AllExpand ==
    /\ pc = "loop" /\ queue # <<>> /\ ExpanderOf(entry) = "all"
    /\ Expanded(AllExpanded(problem, queue, limit),
                Flatten([i \in 1..Len(queue) |-> Expand(problem, queue[i])]))
    /\ UNCHANGED anneal /\ LoopFrame

\* _first_expander
FirstExpanded(p, q, lim) == ExtendTo(q, lim, Expand(p, q[1]))

FirstExpand ==
    /\ pc = "loop" /\ queue # <<>> /\ ExpanderOf(entry) = "first"
    /\ Expanded(FirstExpanded(problem, queue, limit), Expand(problem, queue[1]))
    /\ UNCHANGED anneal /\ LoopFrame

\* mutant: a neighbour of equal value counts as better
BettersOrEqual(p, current) ==
    LET neighbors == Expand(p, current)
    IN {neighbors[i] : i \in {j \in 1..Len(neighbors) : neighbors[j].value >= current.value}}

\* _random_best_expander: the neighbours better than the current node
Betters(p, current) ==
    LET neighbors == Expand(p, current)
    IN {neighbors[i] : i \in {j \in 1..Len(neighbors) : neighbors[j].value > current.value}}

RandomBestExpand ==
    /\ pc = "loop" /\ queue # <<>> /\ ExpanderOf(entry) = "random_best"
    /\ IF Betters(problem, queue[1]) = {}
       THEN Expanded(queue, <<>>)
       ELSE \E chosen \in Betters(problem, queue[1]) :
               Expanded(AppendTo(queue, limit, chosen), <<chosen>>)
    /\ UNCHANGED anneal /\ LoopFrame

\* The temperatures a schedule may return: exactly zero, 1e-9 and 1.
Temperatures == {"0", "1e-9", "1"}

\* "delta_e > 0 or random.random() < math.exp(delta_e / T)": what can happen.
\* delta_e / T raises ZeroDivisionError for T = 0; math.exp underflows to 0.0
\* for delta_e / 1e-9 with delta_e <= -1; math.exp(0) = 1.0 exceeds every draw.
AcceptOutcomes(delta_e, T) ==
    IF delta_e > 0 THEN {"accept"}
    ELSE IF T = "0" THEN {"ZeroDivisionError"}
    ELSE IF delta_e = 0 THEN {"accept"}
    ELSE IF T = "1e-9" THEN {"reject"}
    ELSE {"accept", "reject"}

\* mutant: the successor is inserted without removing the current node
AnnealAcceptedNoPop(q, lim, succ) == AppendTo(q, lim, succ)

\* lines 190-191: fringe.pop(), then fringe.append(succ)
AnnealAccepted(q, lim, succ) == AppendTo(HeapPopRest(q), lim, succ)

\* _create_simulated_annealing_expander._expander
AnnealExpand ==
    /\ pc = "loop" /\ queue # <<>> /\ ExpanderOf(entry) = "annealing"
    /\ \E T \in Temperatures :
          LET current == queue[1]
              neighbors == Expand(problem, current)
          IN IF neighbors = <<>>
             THEN /\ anneal' = [T |-> T, succ |-> None, delta |-> 0,
                                outcome |-> "no_neighbors"]
                  /\ Expanded(queue, <<>>)
             ELSE \E i \in 1..Len(neighbors) :
                     LET succ == neighbors[i]
                         delta_e == succ.value - current.value
                     IN \E o \in AcceptOutcomes(delta_e, T) :
                           /\ anneal' = [T |-> T, succ |-> succ, delta |-> delta_e,
                                         outcome |-> o]
                           /\ CASE o = "accept" ->
                                     Expanded(AnnealAccepted(queue, limit, succ), <<succ>>)
                                [] o = "reject" -> Expanded(queue, <<>>)
                                [] OTHER ->
                                     /\ fault' = o /\ pc' = "fault"
                                     /\ old_best' = current /\ before' = queue
                                     /\ UNCHANGED <<queue, appended, iteration, best>>
    /\ LoopFrame

\* _create_genetic_expander._expander: the sampler is built (lines 227-228),
\* then line 232 calls sampler.best(), which InverseTransformSampler does not
\* define: AttributeError, before the fringe is touched.
GeneticExpand ==
    /\ pc = "loop" /\ queue # <<>> /\ ExpanderOf(entry) = "genetic"
    /\ old_best' = queue[1] /\ before' = queue
    /\ fault' = "AttributeError" /\ pc' = "fault"
    /\ UNCHANGED <<queue, appended, iteration, best, anneal>> /\ LoopFrame

\* mutant: the no-improvement test comes first
StopDecisionSwapped(il, it, oldv, newv, snb) ==
    IF oldv >= newv /\ snb THEN FinishNoBetter
    ELSE IF il # 0 /\ it >= il THEN FinishLimit
    ELSE ""

\* lines 366-371: the reason to stop, "" to go on
StopDecision(il, it, oldv, newv, snb) ==
    IF il # 0 /\ it >= il THEN FinishLimit
    ELSE IF oldv >= newv /\ snb THEN FinishNoBetter
    ELSE ""

CheckStop ==
    /\ pc = "check"
    /\ LET r == StopDecision(iterations_limit, iteration, old_best.value, best.value,
                             StopWhenNoBetter(entry, iterations_limit))
       IN IF r = "" THEN pc' = "loop" /\ finish_reason' = finish_reason
          ELSE pc' = "done" /\ finish_reason' = r
    /\ UNCHANGED <<queue, limit, fault, appended, called, problem, entry,
                   iterations_limit, fringe_size, initial_state, iteration,
                   old_best, best, anneal, before, rvars, svars>>

(***************************************************************************)
(* hill_climbing_random_restarts.                                          *)
(***************************************************************************)
\* mutant: a run of equal value replaces the retained best
ReplacesOnTie(b, new) == b = None \/ b.value <= new.value

\* line 152: "not best or best.value < new.value"
Replaces(b, new) == b = None \/ b.value < new.value

\* line 143: another run, or lines 157-160: return best
RestartsLoop ==
    /\ pc = "rloop"
    /\ pc' = IF restarts < restarts_limit THEN "start" ELSE "returned"
    /\ UNCHANGED <<queue, limit, fault, appended, called, problem, entry,
                   iterations_limit, fringe_size, initial_state, iteration,
                   old_best, best, finish_reason, anneal, before, rvars, svars>>

\* lines 144-155: the run returned its best
RunReturn ==
    /\ pc = "done" /\ entry = "hill_climbing_random_restarts"
    /\ rbest' = IF Replaces(rbest, best) THEN best ELSE rbest
    /\ restarts' = restarts + 1
    /\ results' = Append(results, best)
    /\ pc' = "rloop"
    /\ UNCHANGED <<queue, limit, fault, appended, called, problem, entry,
                   iterations_limit, fringe_size, initial_state, iteration,
                   old_best, best, finish_reason, anneal, before, restarts_limit,
                   svars>>

Init ==
    /\ problem \in {"toy", "deadend"}
    /\ entry \in Entries
    /\ iterations_limit \in 0..MaxIter
    /\ fringe_size \in (IF entry \in Sized THEN -1..MaxLimit ELSE {1})
    /\ initial_state \in (IF RandomInitial(entry) THEN {0} ELSE States(problem))
    /\ restarts_limit \in (IF entry = "hill_climbing_random_restarts"
                           THEN 0..MaxRestarts ELSE {0})
    /\ pc = IF entry = "hill_climbing_random_restarts" THEN "rloop" ELSE "start"
    /\ queue = <<>> /\ limit = 0 /\ fault = "none" /\ appended = <<>>
    /\ called = "none" /\ iteration = 0 /\ old_best = None /\ best = None
    /\ finish_reason = "" /\ anneal = NoAnneal /\ before = <<>>
    /\ restarts = 0 /\ rbest = None /\ results = <<>>
    /\ SamplerIdle

Next ==
    \/ Start \/ LoopEmpty \/ AllExpand \/ FirstExpand \/ RandomBestExpand
    \/ AnnealExpand \/ GeneticExpand \/ CheckStop \/ RestartsLoop \/ RunReturn

Spec == Init /\ [][Next]_vars

\* The entry points called without an iteration cap.  They run without a
\* suspension point: a call that can take a step takes it.
InitFair == Init /\ iterations_limit = 0

SpecFair == InitFair /\ [][Next]_vars /\ WF_vars(Next)

(***************************************************************************)
(* hill_climbing on the end-to-end problem, from every initial state.  The *)
(* loop of _local_search has no suspension point: a run that can take a    *)
(* step takes it.                                                          *)
(***************************************************************************)
InitHill ==
    /\ problem = "line" /\ entry = "hill_climbing" /\ iterations_limit = 0
    /\ fringe_size = 1 /\ initial_state \in States("line")
    /\ pc = "start"
    /\ queue = <<>> /\ limit = 0 /\ fault = "none" /\ appended = <<>>
    /\ called = "none" /\ iteration = 0 /\ old_best = None /\ best = None
    /\ finish_reason = "" /\ anneal = NoAnneal /\ before = <<>>
    /\ RestartsIdle /\ SamplerIdle

NextHill == Start \/ FirstExpand \/ CheckStop

SpecHill == InitHill /\ [][NextHill]_vars /\ WF_vars(NextHill)

(***************************************************************************)
(* InverseTransformSampler.  The source computes probs in floating point;  *)
(* here each cumulative value is the exact fraction num/den, den > 0, and  *)
(* a draw of random.random() is k/DrawDen with 0 <= k < DrawDen.           *)
(***************************************************************************)
RECURSIVE Sum(_)
Sum(ws) == IF ws = <<>> THEN 0 ELSE Head(ws) + Sum(Tail(ws))

\* mutant: the fallback replaces tot and keeps the weights
CumulativeKeepWeights(ws) ==
    LET tot == IF Sum(ws) = 0 THEN Len(ws) ELSE Sum(ws)
    IN [i \in 1..Len(ws) |->
           IF tot > 0 THEN [num |-> Sum(SubSeq(ws, 1, i)), den |-> tot]
           ELSE [num |-> 0 - Sum(SubSeq(ws, 1, i)), den |-> 0 - tot]]

\* lines 67-77: tot, the uniform fallback, and the running sums of w / tot
Cumulative(ws) ==
    LET zero == Sum(ws) = 0
        tot == IF zero THEN Len(ws) ELSE Sum(ws)
        w == IF zero THEN [i \in 1..Len(ws) |-> 1] ELSE ws
    IN [i \in 1..Len(ws) |->
           IF tot > 0 THEN [num |-> Sum(SubSeq(w, 1, i)), den |-> tot]
           ELSE [num |-> 0 - Sum(SubSeq(w, 1, i)), den |-> 0 - tot]]

\* mutant: the loop also steps over a cumulative value equal to the draw
RECURSIVE SampleFromSkipEqual(_, _, _)
SampleFromSkipEqual(pr, k, i) ==
    IF i # Len(pr) /\ k * pr[i].den >= pr[i].num * DrawDen
    THEN SampleFromSkipEqual(pr, k, i + 1)
    ELSE i

\* lines 82-84: the index sample() stops at for the draw k/DrawDen
RECURSIVE SampleFrom(_, _, _)
SampleFrom(pr, k, i) ==
    IF i # Len(pr) /\ k * pr[i].den > pr[i].num * DrawDen
    THEN SampleFrom(pr, k, i + 1)
    ELSE i

\* the candidates a sampler is given: the first n states, as nodes
Candidates(n) == [i \in 1..n |-> MkNode("toy", i - 1)]

InitSampler ==
    /\ queue = <<>> /\ limit = 0 /\ fault = "none" /\ appended = <<>>
    /\ problem = "toy" /\ called = "none"
    /\ DriverIdle /\ RestartsIdle /\ SamplerIdle

SFrame == UNCHANGED <<queue, limit, appended, problem, dvars, rvars>>

\* mutant: the assertion does not compare the lengths
AssertedNoLength(ws, n) == ws # <<>> /\ n # 0

\* line 65: "assert weights and objects and len(weights) == len(objects)",
\* for a list of weights and n objects
Asserted(ws, n) == ws # <<>> /\ n # 0 /\ Len(ws) = n

\* InverseTransformSampler(weights, objects)
SConstruct ==
    /\ called = "none"
    /\ \E ws \in SeqsOf(-1..MaxWeight, 0, MaxN), n \in 0..MaxN :
          /\ weights' = ws
          /\ given' = [given EXCEPT !.n = n]
          /\ IF ~Asserted(ws, n)
             THEN fault' = "AssertionError" /\ objects' = <<>> /\ probs' = <<>>
             ELSE fault' = "none" /\ objects' = Candidates(n)
                  /\ probs' = Cumulative(ws)
    /\ called' = "__init__" /\ returned' = None
    /\ SFrame

\* sample()
SSample ==
    /\ objects # <<>>
    /\ \E k \in 0..(DrawDen - 1) :
          /\ given' = [given EXCEPT !.draw = k]
          /\ returned' = objects[SampleFrom(probs, k, 1)]
    /\ called' = "sample" /\ fault' = "none"
    /\ UNCHANGED <<weights, objects, probs>> /\ SFrame

\* best(), as _create_genetic_expander calls it at local.py line 232: the
\* class defines __init__ and sample only, so the call raises AttributeError
SBest ==
    /\ objects # <<>>
    /\ called' = "best" /\ fault' = "AttributeError" /\ returned' = None
    /\ UNCHANGED <<weights, objects, probs, given>> /\ SFrame

NextSampler == SConstruct \/ SSample \/ SBest

SpecSampler == InitSampler /\ [][NextSampler]_vars

(***************************************************************************)
(* sample() on every sampler the constructor can leave.  In floating point *)
(* the running sum of line 76 can end below 1 (0.9999999999999998 for the  *)
(* weights 3, 1, 1, 1, 1, 1, 1, 1, 1, 1, 1) and a draw can exceed it; at   *)
(* the resolution of the draws here, such a last value lies between the    *)
(* two largest draws.                                                      *)
(***************************************************************************)
Shortfall(pr) ==
    [pr EXCEPT ![Len(pr)] = [num |-> 2 * DrawDen - 3, den |-> 2 * DrawDen]]

InitSample ==
    /\ queue = <<>> /\ limit = 0 /\ fault = "none" /\ appended = <<>>
    /\ problem = "toy" /\ called = "__init__"
    /\ DriverIdle /\ RestartsIdle
    /\ \E ws \in SeqsOf(-1..MaxWeight, 1, MaxN), short \in BOOLEAN :
          /\ weights = ws /\ objects = Candidates(Len(ws))
          /\ probs = IF short THEN Shortfall(Cumulative(ws)) ELSE Cumulative(ws)
          /\ given = [n |-> Len(ws), draw |-> 0]
    /\ returned = None

NextSample == SSample

SpecSample == InitSample /\ [][NextSample]_vars

(***************************************************************************)
(* Claims about the queue.                                                 *)
(***************************************************************************)
\* how many elements of l have value v / a value above v
CountValue(l, v) == Cardinality({i \in 1..Len(l) : l[i].value = v})
CountAbove(l, v) == Cardinality({i \in 1..Len(l) : l[i].value > v})
ValuesOf(l) == {l[i].value : i \in 1..Len(l)}

\* the number of copies of v among the n highest values of l
TopCount(l, n, v) ==
    LET room == n - CountAbove(l, v)
    IN IF room <= 0 THEN 0
       ELSE IF room < CountValue(l, v) THEN room ELSE CountValue(l, v)

\* C1: with a limit L >= 1 and only appends, the size never exceeds L, and
\* once more than L candidates were appended the size is L and the values
\* held are the L highest values appended (as a multiset).
C1_TopRetained ==
    limit >= 1 =>
        /\ Len(queue) <= limit
        /\ Len(appended) > limit =>
              /\ Len(queue) = limit
              /\ \A v \in ValuesOf(appended) \cup ValuesOf(queue) :
                    CountValue(queue, v) = TopCount(appended, limit, v)

\* more than L + 1 appended, the last two tied in value and different in
\* state, and the last one, better than the first, now at the head
C1_Witness ==
    /\ limit >= 1 /\ Len(appended) > limit + 1 /\ Len(queue) = limit
    /\ appended[Len(appended)].value > appended[1].value
    /\ appended[Len(appended) - 1].value = appended[Len(appended)].value
    /\ appended[Len(appended) - 1].state # appended[Len(appended)].state
    /\ queue[1] = appended[Len(appended)]

\* C2: whatever operations were applied, a non-empty queue has at index 0
\* an element whose value is at least the value of every element held.
C2_BestAtHead ==
    queue # <<>> => \A i \in 1..Len(queue) : queue[1].value >= queue[i].value

\* a remove that succeeded and left three elements of unequal values
C2_Witness ==
    /\ called = "remove" /\ fault = "none" /\ Len(queue) = 3
    /\ queue[1].value > queue[2].value /\ queue[2].value # queue[3].value

(***************************************************************************)
(* Claims about the driver and the entry points.                           *)
(***************************************************************************)
Capped == iterations_limit # 0 /\ iteration >= iterations_limit
Stale == StopWhenNoBetter(entry, iterations_limit) /\ best.value <= old_best.value

\* C3: after the strategy has run, the run stops with the iteration-limit
\* reason exactly when a non-zero cap is reached (also when the best did not
\* improve); otherwise it stops with the no-improvement reason exactly when
\* that stop is enabled and the new best does not exceed the old one;
\* otherwise it goes on.  There is no other reason.
C3_StopProtocol ==
    /\ pc = "done" =>
          /\ finish_reason \in {FinishLimit, FinishNoBetter}
          /\ finish_reason = FinishLimit <=> Capped
          /\ finish_reason = FinishNoBetter <=> (~Capped /\ Stale)
    /\ (pc = "loop" /\ iteration > 0) =>
          /\ finish_reason = "" /\ ~Capped /\ ~Stale

\* the cap is reached in an iteration that did not improve the best, with the
\* no-improvement stop enabled: the cap is the reason
C3_Witness ==
    /\ pc = "done" /\ finish_reason = FinishLimit /\ Stale /\ iteration = MaxIter

\* C4: hill_climbing without a cap on the line problem ends, from every
\* initial state, holding state 42 of quality 0, for the no-improvement reason.
C4_HillConverges ==
    <>[](/\ pc = "done" /\ fault = "none"
         /\ best = [state |-> LineTarget, value |-> 0]
         /\ finish_reason = FinishNoBetter)

\* the run from state 0: 42 improving iterations and the one that stops it
C4_Witness ==
    /\ problem = "line" /\ pc = "done" /\ initial_state = 0
    /\ iteration = LineTarget + 1 /\ best.state = LineTarget

\* C5 (as claimed): in genetic search with population size P >= 1 the fringe
\* holds P candidates after initialisation and after every genetic step,
\* which therefore returns.
C5_PopulationKept ==
    (entry = "genetic" /\ fringe_size >= 1 /\ pc # "start") =>
        /\ Len(queue) = fringe_size
        /\ fault = "none"

\* C6 (as claimed): a genetic step carries the best candidate of the
\* population into the next generation, so the best value does not decrease.
C6_Elitism ==
    (entry = "genetic" /\ old_best # None) =>
        /\ pc \in {"check", "loop", "done"}
        /\ \E i \in 1..Len(queue) : queue[i] = old_best
        /\ best.value >= old_best.value

\* C7 (as claimed): an annealing step whose successor is not better, under a
\* zero or near-zero temperature, raises nothing and rejects the successor.
C7_ColdRejects ==
    (entry = "simulated_annealing" /\ anneal.outcome # "none"
        /\ anneal.delta <= 0 /\ anneal.T \in {"0", "1e-9"}) =>
        /\ anneal.outcome = "reject"
        /\ fault = "none"

\* the first index of results whose value no other exceeds
FirstMax(l) ==
    CHOOSE i \in 1..Len(l) :
        /\ \A j \in 1..Len(l) : l[j].value <= l[i].value
        /\ \A j \in 1..(i - 1) : l[j].value < l[i].value

C9_NonPositiveRejected ==
    (fringe_size <= 0 /\ pc # "start") =>
        /\ fault = "ValueError"
        /\ queue = <<>> /\ iteration = 0

\* C13 (as claimed): with iterations_limit = N > 0 the strategy is invoked
\* at most N times, and beam, beam_best_first, hill_climbing_stochastic,
\* simulated_annealing and genetic invoke it exactly N times, whatever the
\* improvement, and end with the iteration-limit reason.
C13_ExactlyN ==
    (iterations_limit > 0 /\ fringe_size >= 1) =>
        /\ iteration <= iterations_limit
        /\ (entry \in {"beam", "beam_best_first", "hill_climbing_stochastic",
                        "simulated_annealing", "genetic"}
               /\ pc \in {"done", "fault"}) =>
              /\ pc = "done"
              /\ iteration = iterations_limit
              /\ finish_reason = FinishLimit

\* C16: an annealing step on a fringe of size 1 leaves exactly the chosen
\* successor when it accepts, and leaves the fringe as it was when it rejects
\* or when the current candidate has no successors; the size is 1 after
\* every step.
C16_AnnealStep ==
    entry = "simulated_annealing" =>
        /\ pc \in {"loop", "check", "done", "fault"} => Len(queue) = 1
        /\ pc = "check" =>
              /\ Len(before) = 1
              /\ anneal.outcome = "accept" =>
                    /\ queue = <<anneal.succ>>
                    /\ \E i \in 1..Len(Expand(problem, before[1])) :
                          Expand(problem, before[1])[i] = anneal.succ
              /\ anneal.outcome = "reject" => queue = before
              /\ anneal.outcome = "no_neighbors" =>
                    /\ Expand(problem, before[1]) = <<>>
                    /\ queue = before

\* a successor worse than the current candidate was accepted and replaced it
C16_Witness ==
    /\ entry = "simulated_annealing" /\ pc = "check"
    /\ anneal.outcome = "accept" /\ anneal.delta < 0
    /\ queue = <<anneal.succ>> /\ queue # before

\* C17: a random-better step leaves the fringe unchanged when no successor
\* of the current candidate has a strictly greater value; otherwise it
\* inserts exactly one successor of strictly greater value, and with a fringe
\* limit of 1 the fringe then holds only that successor.
C17_RandomBetterStep ==
    [][(entry = "hill_climbing_stochastic" /\ pc = "loop" /\ pc' = "check") =>
          LET neighbors == Expand(problem, queue[1])
              better == {i \in 1..Len(neighbors) :
                            neighbors[i].value > queue[1].value}
          IN IF better = {}
             THEN queue' = queue /\ appended' = appended
             ELSE \E i \in better :
                     /\ appended' = Append(appended, neighbors[i])
                     /\ limit = 1 => queue' = <<neighbors[i]>>]_vars

\* both successors were better than the current candidate and the lesser
\* of the two was chosen
C17_Witness ==
    /\ entry = "hill_climbing_stochastic" /\ pc = "check" /\ limit = 1
    /\ Len(queue) = 1 /\ queue[1].value > before[1].value
    /\ \E i \in 1..Len(Expand(problem, before[1])) :
          Expand(problem, before[1])[i].value > queue[1].value

\* C18: after one all-expand step on a fringe of limit L, the fringe holds
\* the min(L, total) highest-valued candidates of the candidates held before
\* the step together with the successors of each of them; successors are
\* computed only from the candidates present before the step.
C18_AllExpandTop ==
    (ExpanderOf(entry) = "all" /\ pc = "check" /\ limit >= 1) =>
        LET pool == before \o Flatten([i \in 1..Len(before) |->
                                          Expand(problem, before[i])])
            n == IF limit < Len(pool) THEN limit ELSE Len(pool)
        IN /\ Len(queue) = n
           /\ \A i \in 1..Len(queue) : \E j \in 1..Len(pool) : queue[i] = pool[j]
           /\ \A v \in ValuesOf(pool) \cup ValuesOf(queue) :
                 CountValue(queue, v) = TopCount(pool, n, v)

\* a beam of two or more whose step brought a better head and kept a
\* candidate it held before
C18_Witness ==
    /\ entry = "beam" /\ pc = "check" /\ limit >= 2
    /\ Len(before) = limit /\ Len(queue) = limit
    /\ queue[1].value > before[1].value
    /\ \E i \in 1..Len(queue), j \in 1..Len(before) : queue[i] = before[j]

\* C20: under the all-expand, first-expand and random-better-expand
\* strategies the best value never decreases from one iteration to the next,
\* so the candidate a run returns has a value >= that of every candidate ever
\* inserted into the fringe during the run, the initial ones included.
C20_BestNeverDecreases ==
    (ExpanderOf(entry) \in {"all", "first", "random_best"}
        /\ pc \in {"check", "done"}) =>
        /\ best = queue[1]
        /\ pc = "check" => best.value >= old_best.value
        /\ \A i \in 1..Len(appended) : best.value >= appended[i].value

\* a beam run that ended after two or more iterations with a candidate
\* better than every initial one
C20_Witness ==
    /\ entry = "beam" /\ pc = "done" /\ iteration >= 2 /\ limit >= 2
    /\ Len(appended) > limit
    /\ \A i \in 1..limit : best.value > appended[i].value

\* the call is over: it returned, or it raised
Terminated ==
    IF entry = "hill_climbing_random_restarts" THEN pc = "returned"
    ELSE pc \in {"done", "fault"}

\* C19: on a finite problem every entry point called with iterations_limit
\* = 0 terminates: an iteration after which the loop goes on has strictly
\* increased the best value, so the number of iterations is at most the
\* number of distinct quality values.
C19_Terminates ==
    /\ []((iterations_limit = 0 /\ pc = "loop" /\ iteration > 0) =>
              best.value > old_best.value)
    /\ [](iterations_limit = 0 =>
              iteration <= Cardinality({Value(problem, s) : s \in States(problem)}))
    /\ ((iterations_limit = 0) ~> Terminated)

\* an annealing run without a cap that improved once and then stopped for
\* lack of improvement
C19_Witness ==
    /\ entry = "simulated_annealing" /\ iterations_limit = 0
    /\ pc = "done" /\ iteration >= 2 /\ finish_reason = FinishNoBetter

(***************************************************************************)
(* Claims about the sampler.                                               *)
(***************************************************************************)
\* the first index of ws holding its largest weight
FirstMaxWeight(ws) ==
    CHOOSE i \in 1..Len(ws) :
        /\ \A j \in 1..Len(ws) : ws[j] <= ws[i]
        /\ \A j \in 1..(i - 1) : ws[j] < ws[i]

\* C10 (as claimed): best() returns the candidate of the largest weight, the
\* first such in input order, whatever was drawn before.
C10_BestIsFirstMax ==
    called = "best" =>
        /\ fault = "none"
        /\ returned = objects[FirstMaxWeight(weights)]

\* C11: when the accepted weights sum to zero the constructor raises no
\* fault and treats every entry as a weight of one: for n candidates the i-th
\* cumulative value is i/n, and for every candidate some draw in [0, 1)
\* makes sample() return it.
C11_ZeroSumUniform ==
    (called \in {"__init__", "sample"} /\ Asserted(weights, given.n)
        /\ Sum(weights) = 0) =>
        LET n == Len(weights)
        IN /\ fault = "none"
           /\ objects = Candidates(n) /\ Len(probs) = n
           /\ \A i \in 1..n : probs[i].den > 0 /\ probs[i].num * n = i * probs[i].den
           /\ \A i \in 1..n : \E k \in 0..(DrawDen - 1) : SampleFrom(probs, k, 1) = i

\* weights of both signs that cancel out, and a draw that returned the
\* second of at least three candidates
C11_Witness ==
    /\ called = "sample" /\ fault = "none"
    /\ Sum(weights) = 0 /\ Len(weights) >= 3
    /\ \E i \in 1..Len(weights) : weights[i] < 0
    /\ returned = objects[2]

\* the indices of pr whose cumulative value is at least the draw k/DrawDen
AtLeast(pr, k) == {i \in 1..Len(pr) : pr[i].num * DrawDen >= k * pr[i].den}

\* C12: for any draw t in [0, 1), sample() returns the candidate at the
\* smallest index whose cumulative value is >= t, and the last candidate when
\* no cumulative value is >= t; sample() does not change the sampler.
C12_SampleFirstAtLeast ==
    /\ [](called = "sample" =>
             LET S == AtLeast(probs, given.draw)
             IN returned = objects[IF S = {} THEN Len(objects)
                                   ELSE CHOOSE i \in S : \A j \in S : i <= j])
    /\ [][called' = "sample" => UNCHANGED <<weights, objects, probs>>]_vars

\* a draw above every cumulative value of a sampler of several candidates:
\* the last candidate was returned
C12_Witness ==
    /\ called = "sample" /\ Len(objects) >= 2
    /\ AtLeast(probs, given.draw) = {}
    /\ returned = objects[Len(objects)]

\* C14: constructing a sampler with an empty list of weights, an empty list
\* of candidates, or lists of different lengths fails with an invalid-argument
\* fault (the assertion of line 65) and produces no sampler.
C14_BadArgumentsRejected ==
    (called # "none"
        /\ (weights = <<>> \/ given.n = 0 \/ Len(weights) # given.n)) =>
        /\ fault = "AssertionError"
        /\ objects = <<>> /\ probs = <<>>

\* two non-empty lists of different lengths were refused
C14_Witness ==
    /\ called = "__init__" /\ fault = "AssertionError"
    /\ weights # <<>> /\ given.n # 0 /\ Len(weights) # given.n
    /\ objects = <<>> /\ probs = <<>>

\* C15 (as claimed): for every accepted non-empty list of weights, negative
\* values included, the cumulative distribution has one value per candidate,
\* in input order, and never decreases.
C15_CumulativeMonotone ==
    (called \in {"__init__", "sample"} /\ objects # <<>>) =>
        /\ Len(probs) = Len(objects)
        /\ \A i \in 1..(Len(probs) - 1) :
              probs[i].num * probs[i + 1].den <= probs[i + 1].num * probs[i].den

====
